---- MODULE Spec2Model ----
(***************************************************************************)
(* Model of src/lambda-edge/authEdge.js: the Lambda@Edge handler that      *)
(* checks a Cognito bearer token, SigV4-signs the request and forwards it  *)
(* to the Lambda function URL.                                             *)
(*                                                                         *)
(* A JavaScript string that the code inspects or transforms is a sequence  *)
(* of Unicode code points; a Buffer is a sequence of bytes (0..255).       *)
(* An optional value (undefined or a value) is a sequence of length 0 or 1.*)
(* The invocations of one process are numbered in the order they start;    *)
(* each handler step between two awaits is one action.                     *)
(***************************************************************************)
EXTENDS Integers, Sequences, FiniteSets

\* ---------------------------------------------------------------- bounds
\* Number of handler invocations in the life of the process.
NumInvocations == 2
\* Number of times the environment's credentials change.
MaxRotations == 1

Invocations == 1..NumInvocations

\* ------------------------------------------------------- optional values
None == <<>>
Some(x) == <<x>>
IsSome(o) == Len(o) > 0
Val(o) == o[1]

\* ------------------------------------------------------------ JS strings
\* String.prototype.startsWith
StartsWith(s, p) ==
    /\ Len(s) >= Len(p)
    /\ SubSeq(s, 1, Len(p)) = p

\* Index of the first occurrence of the code point c in s at or after
\* position i, or 0 when there is none.
RECURSIVE IndexFrom(_, _, _)
IndexFrom(s, c, i) ==
    IF i > Len(s) THEN 0
    ELSE IF s[i] = c THEN i
    ELSE IndexFrom(s, c, i + 1)

\* String.prototype.split with a one-character separator: the sequence of
\* the pieces of s between the occurrences of c.
RECURSIVE Split(_, _)
Split(s, c) ==
    LET k == IndexFrom(s, c, 1) IN
    IF k = 0 THEN <<s>>
    ELSE <<SubSeq(s, 1, k - 1)>> \o Split(SubSeq(s, k + 1, Len(s)), c)

\* Number.prototype.toString: the decimal digits of n.
RECURSIVE ToDecimal(_)
ToDecimal(n) ==
    IF n < 10 THEN <<48 + n>>
    ELSE ToDecimal(n \div 10) \o <<48 + (n % 10)>>

Space == 32
BearerPrefix == <<66, 101, 97, 114, 101, 114, 32>>             \* "Bearer "

\* ---------------------------------------------------------------- base64
\* Value of a character of the base64 alphabets Buffer.from accepts
\* (standard and URL-safe), 64 for any other character.
Unbase64(c) ==
    IF c >= 65 /\ c <= 90 THEN c - 65
    ELSE IF c >= 97 /\ c <= 122 THEN c - 71
    ELSE IF c >= 48 /\ c <= 57 THEN c + 4
    ELSE IF c = 43 \/ c = 45 THEN 62
    ELSE IF c = 47 \/ c = 95 THEN 63
    ELSE 64

\* The sextets of a base64 text: padding and characters outside the
\* alphabet carry no data.
RECURSIVE Sextets(_)
Sextets(s) ==
    IF s = <<>> THEN <<>>
    ELSE IF Unbase64(Head(s)) = 64 THEN Sextets(Tail(s))
    ELSE <<Unbase64(Head(s))>> \o Sextets(Tail(s))

\* Groups of four sextets give three bytes; a final group of two gives
\* one byte, of three gives two bytes, a lone sextet gives none.
RECURSIVE SextetsToBytes(_)
SextetsToBytes(x) ==
    IF Len(x) < 2 THEN <<>>
    ELSE
        LET b1 == (x[1] * 4 + (x[2] \div 16)) % 256 IN
        IF Len(x) = 2 THEN <<b1>>
        ELSE
            LET b2 == ((x[2] % 16) * 16 + (x[3] \div 4)) % 256 IN
            IF Len(x) = 3 THEN <<b1, b2>>
            ELSE
                LET b3 == ((x[3] % 4) * 64 + x[4]) % 256 IN
                <<b1, b2, b3>> \o SextetsToBytes(SubSeq(x, 5, Len(x)))

\* Buffer.from(data, 'base64')
BufferFromBase64(data) == SextetsToBytes(Sextets(data))

\* ----------------------------------------------------------------- UTF-8
ReplacementChar == 65533

\* buf.toString('utf-8'): the UTF-8 decoder, which replaces each maximal
\* ill-formed subsequence by U+FFFD.  need is the number of continuation
\* bytes still expected, cp the code point accumulated so far, lo..hi the
\* range the next continuation byte must lie in.
RECURSIVE Utf8Dec(_, _, _, _, _, _)
Utf8Dec(b, i, need, cp, lo, hi) ==
    IF i > Len(b) THEN (IF need > 0 THEN <<ReplacementChar>> ELSE <<>>)
    ELSE IF need = 0 THEN
        IF b[i] <= 127 THEN <<b[i]>> \o Utf8Dec(b, i + 1, 0, 0, 128, 191)
        ELSE IF b[i] >= 194 /\ b[i] <= 223
            THEN Utf8Dec(b, i + 1, 1, b[i] % 32, 128, 191)
        ELSE IF b[i] >= 224 /\ b[i] <= 239
            THEN Utf8Dec(b, i + 1, 2, b[i] % 16,
                         IF b[i] = 224 THEN 160 ELSE 128,
                         IF b[i] = 237 THEN 159 ELSE 191)
        ELSE IF b[i] >= 240 /\ b[i] <= 244
            THEN Utf8Dec(b, i + 1, 3, b[i] % 8,
                         IF b[i] = 240 THEN 144 ELSE 128,
                         IF b[i] = 244 THEN 143 ELSE 191)
        ELSE <<ReplacementChar>> \o Utf8Dec(b, i + 1, 0, 0, 128, 191)
    ELSE IF b[i] < lo \/ b[i] > hi
        THEN <<ReplacementChar>> \o Utf8Dec(b, i, 0, 0, 128, 191)
    ELSE IF need = 1
        THEN <<cp * 64 + (b[i] % 64)>> \o Utf8Dec(b, i + 1, 0, 0, 128, 191)
    ELSE Utf8Dec(b, i + 1, need - 1, cp * 64 + (b[i] % 64), 128, 191)

BufferToStringUtf8(b) == Utf8Dec(b, 1, 0, 0, 128, 191)

\* Number of bytes of one code point in UTF-8.
Utf8Width(c) ==
    IF c < 128 THEN 1
    ELSE IF c < 2048 THEN 2
    ELSE IF c < 65536 THEN 3
    ELSE 4

ByteLengthMutant(s) == Len(s)

\* Buffer.byteLength(s): the length of s encoded in UTF-8.
RECURSIVE BufferByteLength(_)
BufferByteLength(s) ==
    IF s = <<>> THEN 0
    ELSE Utf8Width(Head(s)) + BufferByteLength(Tail(s))

\* ------------------------------------------------------------------ JSON
\* A JSON value of the origin's payload: a string, a number or null.
JStr(s) == [t |-> "string", s |-> s, n |-> 0]
JNum(n) == [t |-> "number", s |-> <<>>, n |-> n]
JNull == [t |-> "null", s |-> <<>>, n |-> 0]

\* The characters of a string inside a JSON string literal: the quote and
\* the backslash are escaped by a backslash.
RECURSIVE JsonEscape(_)
JsonEscape(s) ==
    IF s = <<>> THEN <<>>
    ELSE (IF Head(s) = 34 \/ Head(s) = 92 THEN <<92, Head(s)>> ELSE <<Head(s)>>)
         \o JsonEscape(Tail(s))

JSONStringifyMutant(v) ==
    IF v.t = "string" THEN v.s
    ELSE IF v.t = "number" THEN ToDecimal(v.n)
    ELSE <<110, 117, 108, 108>>

\* JSON.stringify
JSONStringify(v) ==
    IF v.t = "string" THEN <<34>> \o JsonEscape(v.s) \o <<34>>
    ELSE IF v.t = "number" THEN ToDecimal(v.n)
    ELSE <<110, 117, 108, 108>>                                 \* null

\* ------------------------------------------------------------- responses
Unauthorized == <<85, 110, 97, 117, 116, 104, 111, 114, 105, 122, 101, 100>>
InternalServerError ==
    <<73, 110, 116, 101, 114, 110, 97, 108, 32, 83, 101, 114, 118, 101, 114,
      32, 69, 114, 114, 111, 114>>

\* The object returned at lines 41-45 and 64-68.
ForbiddenResponse ==
    [status |-> "403", statusDescription |-> "Forbidden", body |-> Unauthorized]

\* The object returned at lines 89-93.
InternalErrorResponse ==
    [status |-> "500", statusDescription |-> "Internal Server Error",
     body |-> InternalServerError]

OkResponseMutant(data) ==
    [status |-> "200", statusDescription |-> "OK", body |-> JSONStringifyMutant(data)]

\* The object returned at lines 116-120.
OkResponse(data) ==
    [status |-> "200", statusDescription |-> "OK", body |-> JSONStringify(data)]

\* ------------------------------------------------------- parameter store
PoolIdName == "/publisher/user-pool-id"
ClientIdName == "/publisher/user-pool-client-id"
StackPoolIdName == "/lambda-url-iam/user-pool-id"
StackClientIdName == "/lambda-url-iam/user-pool-client-id"

ThePoolId == "eu-central-1_pool"
TheClientId == "client"

\* The parameters the stack declares (part_000 lines 100-108).
StackStore ==
    [n \in {StackPoolIdName, StackClientIdName} |->
        IF n = StackPoolIdName THEN ThePoolId ELSE TheClientId]

\* A store that also holds the two names the handler asks for.
PublisherStore ==
    [n \in {StackPoolIdName, StackClientIdName, PoolIdName, ClientIdName} |->
        IF n \in {StackPoolIdName, PoolIdName} THEN ThePoolId ELSE TheClientId]

Stores == {StackStore, PublisherStore}

SsmErrors == {"ParameterNotFound", "StoreUnreachable"}

\* The errors ssmClient.send can end with for a name: a missing name is
\* always an error, the store may be unreachable at any time.
SsmErrorsFor(st, name) ==
    IF name \in DOMAIN st THEN {"StoreUnreachable"} ELSE SsmErrors

\* --------------------------------------------------------------- tokens
TokenV == <<118>>                                              \* "v"
\* The tokens the identity provider issued for the pool and the client and
\* that have not expired.
ValidTokens == {TokenV}

VerifyCauses ==
    {"JwksUnreachable", "MalformedToken", "ExpiredToken", "ClaimMismatch",
     "SignatureMismatch"}

\* verifier.verify resolves for a valid token checked against its own pool
\* and client when the key set can be fetched.
VerifyCanSucceed(tok, pool, client) ==
    /\ tok \in ValidTokens
    /\ pool = ThePoolId
    /\ client = TheClientId

\* The causes verifier.verify can reject with.
VerifyCausesFor(tok, pool, client) ==
    IF VerifyCanSucceed(tok, pool, client) THEN {"JwksUnreachable"}
    ELSE VerifyCauses

\* ---------------------------------------------------------- credentials
\* The three values process.env holds after k rotations.
Credentials(k) ==
    [accessKeyId |-> k, secretAccessKey |-> k, sessionToken |-> k]

\* ------------------------------------------------------ inbound requests
\* Sample values of the authorization header's first entry.
AuthBasic == <<66, 97, 115, 105, 99, 32, 100, 65, 61, 61>>     \* "Basic dA=="
AuthLowerCase == <<98, 101, 97, 114, 101, 114, 32, 118>>       \* "bearer v"
AuthNoSpace == <<66, 101, 97, 114, 101, 114>>                  \* "Bearer"
AuthValid == <<66, 101, 97, 114, 101, 114, 32, 118>>           \* "Bearer v"
AuthInvalid == <<66, 101, 97, 114, 101, 114, 32, 120>>         \* "Bearer x"
AuthTwoWords == <<66, 101, 97, 114, 101, 114, 32, 118, 32, 119>> \* "Bearer v w"
AuthTwoSpaces == <<66, 101, 97, 114, 101, 114, 32, 32, 118>>   \* "Bearer  v"

\* headers['authorization']: undefined, an empty list, or a list of values.
MalformedAuthHeaders ==
    {None, Some(<<>>), Some(<<AuthBasic>>), Some(<<AuthLowerCase>>),
     Some(<<AuthNoSpace>>)}
BearerAuthHeaders ==
    {Some(<<AuthValid>>), Some(<<AuthInvalid>>), Some(<<AuthTwoWords>>),
     Some(<<AuthTwoSpaces>>), Some(<<AuthValid, AuthBasic>>)}

\* headers['content-type']: undefined or a list with one value.
ContentTypes == {None, Some(<<"application/json">>)}

\* cfRequest.body: undefined, or data with its encoding.
TextBody(d) == Some([data |-> d, encoding |-> "text"])
Base64Body(d) == Some([data |-> d, encoding |-> "base64"])
Bodies ==
    {None,
     TextBody(<<>>),                                 \* no data
     TextBody(<<233>>),                              \* e acute, one character
     Base64Body(<<119, 54, 107, 61>>),               \* "w6k=": C3 A9
     Base64Body(<<47, 119, 61, 61>>),                \* "/w==": FF
     Base64Body(<<101, 51, 48, 61>>)}                \* "e30=": "{}"

QueryStrings == {"", "a=1"}

Request(auth, ct, body, qs) ==
    [method |-> "POST",
     uri |-> "/items",
     querystring |-> qs,
     domainName |-> "fn.lambda-url.eu-central-1.on.aws",
     headers |-> [authorization |-> auth, contentType |-> ct],
     body |-> body]

\* The inbound request records.  A field the handler never reads on the
\* path a request takes has a single value.
Requests ==
    {Request(a, ct, None, "") : a \in MalformedAuthHeaders, ct \in ContentTypes}
    \cup {Request(a, Some(<<"application/json">>), None, "") : a \in BearerAuthHeaders}
    \cup {Request(Some(<<AuthValid>>), None, None, "")}
    \cup {Request(Some(<<AuthValid>>), Some(<<"application/json">>), b, q) :
            b \in Bodies, q \in QueryStrings}

\* ------------------------------------------------------ handler helpers
AuthHeaderRejectedMutant(headers) ==
    \/ ~IsSome(headers.authorization)
    \/ Len(Val(headers.authorization)) = 0
    \/ ~(\/ StartsWith(Val(headers.authorization)[1], BearerPrefix)
          \/ StartsWith(Val(headers.authorization)[1],
                        <<98, 101, 97, 114, 101, 114, 32>>))

\* The condition of line 40.
AuthHeaderRejected(headers) ==
    \/ ~IsSome(headers.authorization)
    \/ Len(Val(headers.authorization)) = 0
    \/ ~StartsWith(Val(headers.authorization)[1], BearerPrefix)

\* Line 48: authHeader[0].value.split(' ')[1]
ExtractToken(headers) == Split(Val(headers.authorization)[1], Space)[2]

\* Line 71: the URL parsed from the origin's domain name and the uri.  The
\* uri of an origin request is an absolute path without query or fragment.
NewURL(domainName, uri) ==
    [protocol |-> "https:", host |-> domainName, hostname |-> domainName,
     pathname |-> uri, search |-> ""]

\* Line 80 throws a TypeError when the content-type header is undefined or
\* has no first entry.
ContentTypeThrows(headers) ==
    \/ ~IsSome(headers.contentType)
    \/ Len(Val(headers.contentType)) = 0

\* Lines 73-83.
SignV4Options(r) ==
    LET apiUrl == NewURL(r.domainName, r.uri) IN
    [method |-> r.method,
     hostname |-> apiUrl.host,
     path |-> [pathname |-> apiUrl.pathname, query |-> r.querystring],
     protocol |-> apiUrl.protocol,
     query |-> r.querystring,
     headers |-> [contentType |-> Val(r.headers.contentType)[1],
                  host |-> apiUrl.hostname,
                  contentLength |-> None],
     body |-> None]

\* Line 98: cfRequest.body && cfRequest.body.data
HasBodyData(r) == IsSome(r.body) /\ Val(r.body).data # <<>>

\* Lines 99-102: the body data, decoded when its encoding is base64.
DecodeBody(b) ==
    IF b.encoding = "base64" THEN BufferToStringUtf8(BufferFromBase64(b.data))
    ELSE b.data

WithBodyMutant(opts, r) ==
    IF HasBodyData(r) THEN
        LET body == DecodeBody(Val(r.body)) IN
        [opts EXCEPT !.body = Some(body),
                     !.headers.contentLength = Some(ToDecimal(BufferByteLength(body)))]
    ELSE [opts EXCEPT !.headers.contentLength = Some(ToDecimal(0))]

\* Lines 98-106: the options with the body and its length, when there is
\* body data.
WithBody(opts, r) ==
    IF HasBodyData(r) THEN
        LET body == DecodeBody(Val(r.body)) IN
        [opts EXCEPT !.body = Some(body),
                     !.headers.contentLength = Some(ToDecimal(BufferByteLength(body)))]
    ELSE opts

\* sigv4.sign: the request with the signature headers, computed over the
\* request with the signer's credentials.
SigV4Sign(creds, opts) == [request |-> opts, signedWith |-> creds]

RequestTimeout == 5000

\* Lines 109-114: the axios request config.
AxiosConfig(signed, opts, apiUrl) ==
    [method |-> signed.request.method,
     headers |-> signed.request.headers,
     signedWith |-> signed.signedWith,
     url |-> apiUrl,
     timeout |-> RequestTimeout,
     data |-> opts.body]

\* axios' default validateStatus: a response outside 2xx rejects.
ValidateStatus(status) == status >= 200 /\ status < 300

OriginStatuses == {200, 304, 404, 500}
OriginPayloads == {JStr(<<111, 107>>), JStr(<<97, 34, 98>>), JNull}
OriginErrors == {"ETIMEDOUT", "ECONNREFUSED"}

\* ----------------------------------------------------------------- state
VARIABLES
    processEnv,        \* process.env: the number of the credentials it holds now
    sigv4Credentials,  \* the credentials object of the module-level sigv4
    store,             \* the parameter store: name -> value
    ssmRequests,       \* name -> number of GetParameter requests sent so far
    pc,                \* invocation -> the await it is suspended at
    request,           \* invocation -> cfRequest
    token,             \* invocation -> the constant token of line 48
    userPoolId,        \* invocation -> COGNITO_USER_POOL_ID
    clientId,          \* invocation -> COGNITO_CLIENT_ID
    verifierToken,     \* invocation -> the argument of verifier.verify
    verified,          \* invocation -> how verifier.verify ended, "none" before
    signV4Options,     \* invocation -> the object of lines 73-83 and 104-105
    envAtSign,         \* invocation -> what process.env held when sign was called
    signed,            \* invocation -> the result of sigv4.sign
    dispatched,        \* invocation -> the config axios was called with
    originResult,      \* invocation -> the origin's HTTP response
    settled,           \* invocation -> "pending", "fulfilled" or "rejected"
    response,          \* invocation -> the value the handler's promise fulfils with
    logged,            \* invocation -> the error given to console.error
    calls              \* invocation -> the external calls issued, in order

procVars == <<processEnv, sigv4Credentials, store, ssmRequests>>
authVars == <<token, userPoolId, clientId, verifierToken, verified>>
fwdVars == <<signV4Options, envAtSign, signed, dispatched, originResult>>
endVars == <<settled, response, logged>>
vars == <<procVars, pc, request, authVars, fwdVars, endVars, calls>>

ParamNames == {PoolIdName, ClientIdName}

\* Module load (lines 7-31): the credentials are read from process.env and
\* given to the signer; no invocation has started.
Init ==
    /\ processEnv = 0
    /\ sigv4Credentials = Credentials(0)
    /\ store \in Stores
    /\ ssmRequests = [n \in ParamNames |-> 0]
    /\ pc = [i \in Invocations |-> "idle"]
    /\ request = [i \in Invocations |-> None]
    /\ token = [i \in Invocations |-> None]
    /\ userPoolId = [i \in Invocations |-> None]
    /\ clientId = [i \in Invocations |-> None]
    /\ verifierToken = [i \in Invocations |-> None]
    /\ verified = [i \in Invocations |-> "none"]
    /\ signV4Options = [i \in Invocations |-> None]
    /\ envAtSign = [i \in Invocations |-> None]
    /\ signed = [i \in Invocations |-> None]
    /\ dispatched = [i \in Invocations |-> None]
    /\ originResult = [i \in Invocations |-> None]
    /\ settled = [i \in Invocations |-> "pending"]
    /\ response = [i \in Invocations |-> None]
    /\ logged = [i \in Invocations |-> None]
    /\ calls = [i \in Invocations |-> <<>>]

\* return of a response object from the handler
Return(i, resp) ==
    /\ pc' = [pc EXCEPT ![i] = "done"]
    /\ settled' = [settled EXCEPT ![i] = "fulfilled"]
    /\ response' = [response EXCEPT ![i] = Some(resp)]

\* an exception no try block of the handler encloses
Throw(i) ==
    /\ pc' = [pc EXCEPT ![i] = "done"]
    /\ settled' = [settled EXCEPT ![i] = "rejected"]
    /\ response' = response

\* Lines 16-18: getParameter sends one GetParameter request.
GetParameter(i, name) ==
    /\ ssmRequests' = [ssmRequests EXCEPT ![name] = @ + 1]
    /\ calls' = [calls EXCEPT ![i] = Append(@, "ssm")]

CatchVerificationMutant(i, err) ==
    /\ logged' = [logged EXCEPT ![i] = Some(err)]
    /\ Return(i, IF err = "ExpiredToken" THEN InternalErrorResponse
                 ELSE ForbiddenResponse)

\* Lines 62-69: the catch block of the verification.
CatchVerification(i, err) ==
    /\ logged' = [logged EXCEPT ![i] = Some(err)]
    /\ Return(i, ForbiddenResponse)

CatchForwardMutant(i, err) ==
    /\ logged' = [logged EXCEPT ![i] = Some(err)]
    /\ Return(i, ForbiddenResponse)

\* Lines 87-94: the catch block of the forwarding.
CatchForward(i, err) ==
    /\ logged' = [logged EXCEPT ![i] = Some(err)]
    /\ Return(i, InternalErrorResponse)

HandlerMutant(i, r) ==
    /\ pc[i] = "idle"
    /\ i > 1 => pc[i - 1] # "idle"
    /\ request' = [request EXCEPT ![i] = Some(r)]
    /\ GetParameter(i, PoolIdName)
    /\ IF AuthHeaderRejected(r.headers)
       THEN /\ Return(i, ForbiddenResponse)
            /\ UNCHANGED token
       ELSE /\ token' = [token EXCEPT ![i] = Some(ExtractToken(r.headers))]
            /\ pc' = [pc EXCEPT ![i] = "awaitPoolId"]
            /\ UNCHANGED <<settled, response>>
    /\ UNCHANGED <<processEnv, sigv4Credentials, store, userPoolId, clientId,
                   verifierToken, verified, fwdVars, logged>>

\* Lines 33-52: the handler up to its first await.
Handler(i, r) ==
    /\ pc[i] = "idle"
    /\ i > 1 => pc[i - 1] # "idle"
    /\ request' = [request EXCEPT ![i] = Some(r)]
    /\ IF AuthHeaderRejected(r.headers)
       THEN /\ Return(i, ForbiddenResponse)
            /\ UNCHANGED <<token, ssmRequests, calls>>
       ELSE /\ token' = [token EXCEPT ![i] = Some(ExtractToken(r.headers))]
            /\ GetParameter(i, PoolIdName)
            /\ pc' = [pc EXCEPT ![i] = "awaitPoolId"]
            /\ UNCHANGED <<settled, response>>
    /\ UNCHANGED <<processEnv, sigv4Credentials, store, userPoolId, clientId,
                   verifierToken, verified, fwdVars, logged>>

\* Lines 52-53: the pool id arrives and the client id is asked for.
PoolIdReturns(i) ==
    /\ pc[i] = "awaitPoolId"
    /\ PoolIdName \in DOMAIN store
    /\ userPoolId' = [userPoolId EXCEPT ![i] = Some(store[PoolIdName])]
    /\ GetParameter(i, ClientIdName)
    /\ pc' = [pc EXCEPT ![i] = "awaitClientId"]
    /\ UNCHANGED <<processEnv, sigv4Credentials, store, request, token, clientId,
                   verifierToken, verified, fwdVars, endVars>>

PoolIdThrowsMutant(i, err) ==
    /\ pc[i] = "awaitPoolId"
    /\ err \in SsmErrorsFor(store, PoolIdName)
    /\ logged' = [logged EXCEPT ![i] = Some(err)]
    /\ userPoolId' = [userPoolId EXCEPT ![i] = Some(ThePoolId)]
    /\ GetParameter(i, ClientIdName)
    /\ pc' = [pc EXCEPT ![i] = "awaitClientId"]
    /\ UNCHANGED <<processEnv, sigv4Credentials, store, request, token, clientId,
                   verifierToken, verified, fwdVars, settled, response>>

\* Lines 52, 62-69: the first getParameter throws.
PoolIdThrows(i, err) ==
    /\ pc[i] = "awaitPoolId"
    /\ err \in SsmErrorsFor(store, PoolIdName)
    /\ CatchVerification(i, err)
    /\ UNCHANGED <<procVars, request, authVars, fwdVars, calls>>

\* Lines 53-61: the client id arrives, the verifier is created and called.
ClientIdReturns(i) ==
    /\ pc[i] = "awaitClientId"
    /\ ClientIdName \in DOMAIN store
    /\ clientId' = [clientId EXCEPT ![i] = Some(store[ClientIdName])]
    /\ verifierToken' = [verifierToken EXCEPT ![i] = token[i]]
    /\ calls' = [calls EXCEPT ![i] = Append(@, "verify")]
    /\ pc' = [pc EXCEPT ![i] = "awaitVerify"]
    /\ UNCHANGED <<procVars, request, token, userPoolId, verified, fwdVars, endVars>>

\* Lines 53, 62-69: the second getParameter throws.
ClientIdThrows(i, err) ==
    /\ pc[i] = "awaitClientId"
    /\ err \in SsmErrorsFor(store, ClientIdName)
    /\ CatchVerification(i, err)
    /\ UNCHANGED <<procVars, request, authVars, fwdVars, calls>>

\* Lines 71-108: after the verification, the handler up to the await of
\* sigv4.sign.
StartForward(i) ==
    LET r == Val(request[i]) IN
    IF ContentTypeThrows(r.headers)
    THEN /\ Throw(i)
         /\ UNCHANGED <<signV4Options, envAtSign, calls>>
    ELSE /\ signV4Options' =
                [signV4Options EXCEPT ![i] = Some(WithBody(SignV4Options(r), r))]
         /\ envAtSign' = [envAtSign EXCEPT ![i] = Some(processEnv)]
         /\ calls' = [calls EXCEPT ![i] = Append(@, "sign")]
         /\ pc' = [pc EXCEPT ![i] = "awaitSign"]
         /\ UNCHANGED <<settled, response>>

VerifyRejectsMutant(i, cause) ==
    /\ pc[i] = "awaitVerify"
    /\ cause \in VerifyCausesFor(Val(verifierToken[i]), Val(userPoolId[i]),
                                 Val(clientId[i]))
    /\ verified' = [verified EXCEPT ![i] = "rejected"]
    /\ StartForward(i)
    /\ UNCHANGED <<procVars, request, token, userPoolId, clientId, verifierToken,
                   signed, dispatched, originResult, logged>>

\* Lines 61-69: verifier.verify throws.
VerifyRejects(i, cause) ==
    /\ pc[i] = "awaitVerify"
    /\ cause \in VerifyCausesFor(Val(verifierToken[i]), Val(userPoolId[i]),
                                 Val(clientId[i]))
    /\ verified' = [verified EXCEPT ![i] = "rejected"]
    /\ CatchVerification(i, cause)
    /\ UNCHANGED <<procVars, request, token, userPoolId, clientId, verifierToken,
                   fwdVars, calls>>

\* Lines 61, 71-108: verifier.verify resolves.
VerifyResolves(i) ==
    /\ pc[i] = "awaitVerify"
    /\ VerifyCanSucceed(Val(verifierToken[i]), Val(userPoolId[i]), Val(clientId[i]))
    /\ verified' = [verified EXCEPT ![i] = "resolved"]
    /\ StartForward(i)
    /\ UNCHANGED <<procVars, request, token, userPoolId, clientId, verifierToken,
                   signed, dispatched, originResult, logged>>

SignResolvesMutant(i) ==
    /\ pc[i] = "awaitSign"
    /\ LET r == Val(request[i])
           last == CHOOSE k \in Invocations :
                        /\ IsSome(signV4Options[k])
                        /\ \A m \in Invocations : IsSome(signV4Options[m]) => m <= k
           sig == SigV4Sign(sigv4Credentials, Val(signV4Options[last]))
       IN /\ signed' = [signed EXCEPT ![i] = Some(sig)]
          /\ dispatched' =
                [dispatched EXCEPT ![i] =
                    Some(AxiosConfig(sig, Val(signV4Options[last]),
                                     NewURL(r.domainName, r.uri)))]
    /\ calls' = [calls EXCEPT ![i] = Append(@, "axios")]
    /\ pc' = [pc EXCEPT ![i] = "awaitOrigin"]
    /\ UNCHANGED <<procVars, request, authVars, signV4Options, envAtSign,
                   originResult, endVars>>

\* Lines 108-114: the signature arrives and axios is called.
SignResolves(i) ==
    /\ pc[i] = "awaitSign"
    /\ LET r == Val(request[i])
           sig == SigV4Sign(sigv4Credentials, Val(signV4Options[i]))
       IN /\ signed' = [signed EXCEPT ![i] = Some(sig)]
          /\ dispatched' =
                [dispatched EXCEPT ![i] =
                    Some(AxiosConfig(sig, Val(signV4Options[i]),
                                     NewURL(r.domainName, r.uri)))]
    /\ calls' = [calls EXCEPT ![i] = Append(@, "axios")]
    /\ pc' = [pc EXCEPT ![i] = "awaitOrigin"]
    /\ UNCHANGED <<procVars, request, authVars, signV4Options, envAtSign,
                   originResult, endVars>>

\* Lines 108, 87-94: sigv4.sign throws.
SignRejects(i) ==
    /\ pc[i] = "awaitSign"
    /\ CatchForward(i, "SigningError")
    /\ UNCHANGED <<procVars, request, authVars, fwdVars, calls>>

\* Lines 109-120, 87-94: the origin answers.  axios resolves when the
\* status passes validateStatus and rejects otherwise.
OriginResponds(i, status, data) ==
    /\ pc[i] = "awaitOrigin"
    /\ originResult' = [originResult EXCEPT ![i] = Some([status |-> status, data |-> data])]
    /\ IF ValidateStatus(status)
       THEN /\ Return(i, OkResponse(data))
            /\ logged' = logged
       ELSE CatchForward(i, "ERR_BAD_RESPONSE")
    /\ UNCHANGED <<procVars, request, authVars, signV4Options, envAtSign, signed,
                   dispatched, calls>>

OriginFailsMutant(i, err) ==
    /\ pc[i] = "awaitOrigin"
    /\ IF Len(calls[i]) < 6
       THEN /\ logged' = [logged EXCEPT ![i] = Some(err)]
            /\ calls' = [calls EXCEPT ![i] = Append(@, "axios")]
            /\ UNCHANGED <<pc, settled, response>>
       ELSE /\ CatchForward(i, err)
            /\ calls' = calls
    /\ UNCHANGED <<procVars, request, authVars, fwdVars>>

\* Lines 109-114, 87-94: the request times out or the connection fails.
OriginFails(i, err) ==
    /\ pc[i] = "awaitOrigin"
    /\ CatchForward(i, err)
    /\ UNCHANGED <<procVars, request, authVars, fwdVars, calls>>

\* The execution environment replaces the credentials in process.env.
RotateCredentials ==
    /\ processEnv < MaxRotations
    /\ processEnv' = processEnv + 1
    /\ UNCHANGED <<sigv4Credentials, store, ssmRequests, pc, request, authVars,
                   fwdVars, endVars, calls>>

Next ==
    \/ \E i \in Invocations, r \in Requests : Handler(i, r)
    \/ \E i \in Invocations : PoolIdReturns(i)
    \/ \E i \in Invocations, e \in SsmErrors : PoolIdThrows(i, e)
    \/ \E i \in Invocations : ClientIdReturns(i)
    \/ \E i \in Invocations, e \in SsmErrors : ClientIdThrows(i, e)
    \/ \E i \in Invocations : VerifyResolves(i)
    \/ \E i \in Invocations, c \in VerifyCauses : VerifyRejects(i, c)
    \/ \E i \in Invocations : SignResolves(i)
    \/ \E i \in Invocations : SignRejects(i)
    \/ \E i \in Invocations, s \in OriginStatuses, d \in OriginPayloads :
            OriginResponds(i, s, d)
    \/ \E i \in Invocations, e \in OriginErrors : OriginFails(i, e)
    \/ RotateCredentials

Spec == Init /\ [][Next]_vars

\* ---------------------------------------------------------------- claims
Started(i) == pc[i] # "idle"
Done(i) == pc[i] = "done"
Req(i) == Val(request[i])
AuthValue(i) == Val(Req(i).headers.authorization)[1]

\* The invocation's authorization header is missing, has no first value, or
\* its first value does not begin with the seven characters of "Bearer ".
MissingOrMalformed(i) ==
    \/ Req(i).headers.authorization = None
    \/ Val(Req(i).headers.authorization) = <<>>
    \/ Len(AuthValue(i)) < 7
    \/ \E k \in 1..7 : AuthValue(i)[k] # BearerPrefix[k]

IsForbidden(i) ==
    /\ settled[i] = "fulfilled"
    /\ Val(response[i]).status = "403"
    /\ Val(response[i]).statusDescription = "Forbidden"
    /\ Val(response[i]).body = Unauthorized

IsInternalError(i) ==
    /\ settled[i] = "fulfilled"
    /\ Val(response[i]).status = "500"
    /\ Val(response[i]).statusDescription = "Internal Server Error"
    /\ Val(response[i]).body = InternalServerError

IsOkWith(i, data) ==
    /\ settled[i] = "fulfilled"
    /\ Val(response[i]).status = "200"
    /\ Val(response[i]).statusDescription = "OK"
    /\ Val(response[i]).body = JSONStringify(data)

\* The number of bytes of the UTF-8 encoding of s: one per code point and one
\* more for each code point beyond U+007F, beyond U+07FF and beyond U+FFFF.
Utf8Bytes(s) ==
    Len(s) + Cardinality({k \in DOMAIN s : s[k] > 127})
           + Cardinality({k \in DOMAIN s : s[k] > 2047})
           + Cardinality({k \in DOMAIN s : s[k] > 65535})

ParameterFetchFailed(i) == IsSome(logged[i]) /\ Val(logged[i]) \in SsmErrors
ForwardFailed(i) ==
    IsSome(logged[i]) /\ Val(logged[i]) \in OriginErrors \cup {"SigningError"}

\* C1: an invocation has called the origin only if its authorization header
\* was well formed, both of its parameter fetches returned and its own call
\* of the verifier has resolved.
C1_OriginOnlyAfterVerification ==
    \A i \in Invocations :
        ("axios" \in {calls[i][k] : k \in DOMAIN calls[i]} \/ IsSome(dispatched[i]))
        => /\ ~MissingOrMalformed(i)
           /\ IsSome(userPoolId[i])
           /\ IsSome(clientId[i])
           /\ verified[i] = "resolved"

C1_Witness ==
    \E i \in Invocations : IsSome(dispatched[i]) /\ verified[i] = "resolved"

\* C2: every finished invocation has fulfilled with one of the three
\* response shapes; none ends with an exception.
C2_AlwaysProxyResponse ==
    \A i \in Invocations :
        Done(i) =>
            /\ settled[i] = "fulfilled"
            /\ \/ IsForbidden(i)
               \/ IsInternalError(i)
               \/ /\ Val(response[i]).status = "200"
                  /\ Val(response[i]).statusDescription = "OK"

\* C3: a started invocation whose authorization header is missing or
\* malformed has returned exactly the 403 response.
C3_MalformedHeaderForbidden ==
    \A i \in Invocations :
        (Started(i) /\ MissingOrMalformed(i))
        => /\ Done(i)
           /\ response[i] =
                Some([status |-> "403", statusDescription |-> "Forbidden",
                      body |-> Unauthorized])
           /\ settled[i] = "fulfilled"

C3_Witness ==
    \E i \in Invocations :
        /\ Started(i)
        /\ Req(i).headers.authorization = Some(<<AuthLowerCase>>)
        /\ IsForbidden(i)

\* C4: every invocation whose verifier call failed returns the 403
\* response, and two invocations of the same request whose verifier calls
\* failed return equal responses, whatever the two causes.
C4_UniformVerificationFailure ==
    /\ \A i \in Invocations : verified[i] = "rejected" => IsForbidden(i)
    /\ \A i, j \in Invocations :
        (verified[i] = "rejected" /\ verified[j] = "rejected"
            /\ request[i] = request[j])
        => (response[i] = response[j] /\ settled[i] = settled[j])

C4_Witness ==
    \E i, j \in Invocations :
        /\ verified[i] = "rejected" /\ verified[j] = "rejected"
        /\ request[i] = request[j]
        /\ logged[i] = Some("ExpiredToken")
        /\ logged[j] = Some("JwksUnreachable")
        /\ response[i] = response[j]

\* C5: an invocation one of whose parameter fetches failed returns the 403
\* response without calling the verifier or the origin.
C5_FetchFailureForbidden ==
    \A i \in Invocations :
        ParameterFetchFailed(i)
        => /\ IsForbidden(i)
           /\ Done(i)
           /\ verified[i] = "none"
           /\ verifierToken[i] = None
           /\ dispatched[i] = None
           /\ \A k \in DOMAIN calls[i] : calls[i][k] = "ssm"

C5_Witness ==
    \E i, j \in Invocations :
        /\ ParameterFetchFailed(i)
        /\ ~MissingOrMalformed(i)
        /\ userPoolId[i] = None
        /\ IsForbidden(i)
        /\ logged[j] = Some("StoreUnreachable")
        /\ IsSome(userPoolId[j])
        /\ IsForbidden(j)

C7_ForwardFailureInternalError ==
    \A i \in Invocations :
        ForwardFailed(i)
        => /\ Done(i)
           /\ settled[i] = "fulfilled"
           /\ response[i] =
                Some([status |-> "500",
                      statusDescription |-> "Internal Server Error",
                      body |-> InternalServerError])

C7_Witness ==
    \E i, j \in Invocations :
        /\ verified[i] = "resolved"
        /\ logged[i] = Some("ETIMEDOUT")
        /\ IsInternalError(i)
        /\ logged[j] = Some("SigningError")
        /\ IsInternalError(j)

\* C8: each of the two parameters is requested from the store at most once
\* in the life of the process.
C8_AtMostOneFetchPerName ==
    \A n \in ParamNames : ssmRequests[n] <= 1

\* C9: a request is signed with the credentials process.env held when the
\* signing call was made.
C9_SignedWithCurrentCredentials ==
    \A i \in Invocations :
        IsSome(signed[i])
        => Val(signed[i]).signedWith = Credentials(Val(envAtSign[i]))

\* C10: for an inbound body with data, the body signed and sent is the
\* UTF-8 text of the base64-decoded data when the encoding is base64 and the
\* data itself otherwise, and the content-length signed and sent is the
\* decimal number of UTF-8 bytes of that body.
C10_BodyRoundTrip ==
    \A i \in Invocations :
        (IsSome(dispatched[i]) /\ IsSome(Req(i).body) /\ Val(Req(i).body).data # <<>>)
        => LET b == Val(Req(i).body)
               expected == IF b.encoding = "base64"
                           THEN BufferToStringUtf8(BufferFromBase64(b.data))
                           ELSE b.data
               d == Val(dispatched[i])
               sg == Val(signed[i]).request
           IN /\ d.data = Some(expected)
              /\ sg.body = Some(expected)
              /\ d.headers.contentLength = Some(ToDecimal(Utf8Bytes(expected)))
              /\ sg.headers.contentLength = d.headers.contentLength

C10_Witness ==
    \E i, j \in Invocations :
        /\ IsSome(dispatched[i])
        /\ Req(i).body = Base64Body(<<119, 54, 107, 61>>)
        /\ Val(dispatched[i]).data = Some(<<233>>)
        /\ Val(dispatched[i]).headers.contentLength = Some(<<50>>)
        /\ IsSome(dispatched[j])
        /\ Req(j).body = Base64Body(<<47, 119, 61, 61>>)
        /\ Val(dispatched[j]).data = Some(<<65533>>)
        /\ Val(dispatched[j]).headers.contentLength = Some(<<51>>)

\* The inbound request has no body: cfRequest.body is undefined or its data
\* is the empty string.
NoInboundBody(i) == Req(i).body = None \/ Val(Req(i).body).data = <<>>

\* C11: the request signed and the request sent carry a content-length
\* header exactly when they carry a body, and for an inbound request
\* without body they carry neither.
C11_ContentLengthIffBody ==
    \A i \in Invocations :
        /\ IsSome(signV4Options[i]) =>
            LET o == Val(signV4Options[i]) IN
            /\ (o.headers.contentLength # None) <=> (o.body # None)
            /\ NoInboundBody(i) => (o.body = None /\ o.headers.contentLength = None)
        /\ IsSome(dispatched[i]) =>
            LET d == Val(dispatched[i])
                sg == Val(signed[i]).request
            IN /\ (d.headers.contentLength # None) <=> (d.data # None)
               /\ (sg.headers.contentLength # None) <=> (sg.body # None)
               /\ NoInboundBody(i) =>
                    /\ d.data = None /\ d.headers.contentLength = None
                    /\ sg.body = None /\ sg.headers.contentLength = None

C11_Witness ==
    \E i, j \in Invocations :
        /\ IsSome(dispatched[i])
        /\ Req(i).body = None
        /\ Val(dispatched[i]).data = None
        /\ Val(dispatched[i]).headers.contentLength = None
        /\ IsSome(dispatched[j])
        /\ Req(j).body = TextBody(<<>>)
        /\ Val(dispatched[j]).data = None
        /\ Val(dispatched[j]).headers.contentLength = None

\* The number of calls of one kind an invocation has issued.
CallCount(i, op) == Cardinality({k \in DOMAIN calls[i] : calls[i][k] = op})

\* A parameter fetch, the verification or the forwarding of the invocation
\* has failed: its error went to console.error.
HasFailed(i) == IsSome(logged[i])

\* C12: an invocation calls the verifier at most once and the origin at most
\* once, and after one of its external calls has failed it issues no
\* further external call.
C12_NoRetry ==
    /\ [](\A i \in Invocations :
            /\ CallCount(i, "verify") <= 1
            /\ CallCount(i, "axios") <= 1
            /\ CallCount(i, "sign") <= 1)
    /\ [][\A i \in Invocations : HasFailed(i) => calls'[i] = calls[i]]_vars

C12_Witness ==
    \E i, j \in Invocations :
        /\ Done(i)
        /\ verified[i] = "rejected"
        /\ calls[i] = <<"ssm", "ssm", "verify">>
        /\ Done(j)
        /\ logged[j] = Some("ECONNREFUSED")
        /\ calls[j] = <<"ssm", "ssm", "verify", "sign", "axios">>

\* The query of a URL: its search without the leading question mark (an
\* empty search is an empty query).
UrlQuery(url) == url.search

\* C13: the URL a request is sent to is made of the origin's domain name,
\* the inbound path and the inbound query string, so that the path and
\* query sent are the path and query that were signed.
C13_SentUrlIsSignedTarget ==
    \A i \in Invocations :
        IsSome(dispatched[i]) =>
            LET d == Val(dispatched[i])
                sg == Val(signed[i]).request
            IN /\ d.url.host = Req(i).domainName
               /\ d.url.pathname = Req(i).uri
               /\ UrlQuery(d.url) = Req(i).querystring
               /\ [pathname |-> d.url.pathname, query |-> UrlQuery(d.url)] = sg.path

\* C14: the token given to the verifier is everything that follows the
\* seven characters of the prefix in the header value.
C14_TokenIsRestOfHeader ==
    \A i \in Invocations :
        IsSome(verifierToken[i]) =>
            Val(verifierToken[i]) = SubSeq(AuthValue(i), 8, Len(AuthValue(i)))

\* Everything the handler holds for one invocation.
Locals(i) ==
    <<request[i], token[i], userPoolId[i], clientId[i], verifierToken[i],
      verified[i], signV4Options[i], envAtSign[i], signed[i], dispatched[i],
      originResult[i], settled[i], response[i], logged[i], calls[i]>>

LocalsNext(i) ==
    <<request'[i], token'[i], userPoolId'[i], clientId'[i], verifierToken'[i],
      verified'[i], signV4Options'[i], envAtSign'[i], signed'[i], dispatched'[i],
      originResult'[i], settled'[i], response'[i], logged'[i], calls'[i]>>

\* What the invocation gives its caller when it runs alone on its request
\* with the outcomes its own external calls had: None for an exception.
ResultAlone(i) ==
    IF MissingOrMalformed(i) THEN Some(ForbiddenResponse)
    ELSE IF verified[i] # "resolved" THEN Some(ForbiddenResponse)
    ELSE IF Req(i).headers.contentType = None THEN None
    ELSE IF IsSome(originResult[i]) /\ Val(originResult[i]).status \in 200..299
        THEN Some(OkResponse(Val(originResult[i]).data))
    ELSE Some(InternalErrorResponse)

\* The options, the signed request and the axios call of the invocation
\* when it runs alone on its request.
OptionsAlone(i) == WithBody(SignV4Options(Req(i)), Req(i))
SentAlone(i) ==
    AxiosConfig(SigV4Sign(sigv4Credentials, OptionsAlone(i)), OptionsAlone(i),
                NewURL(Req(i).domainName, Req(i).uri))

\* C15: whatever the interleaving, what an invocation verifies, signs, sends
\* and returns is what it would on its own request alone, and a step of one
\* invocation changes nothing another invocation holds.
C15_InvocationsIsolated ==
    /\ [](\A i \in Invocations :
            /\ IsSome(verifierToken[i]) =>
                    Val(verifierToken[i]) = ExtractToken(Req(i).headers)
            /\ IsSome(signV4Options[i]) => Val(signV4Options[i]) = OptionsAlone(i)
            /\ IsSome(signed[i]) => Val(signed[i]).request = OptionsAlone(i)
            /\ IsSome(dispatched[i]) => Val(dispatched[i]) = SentAlone(i)
            /\ Done(i) => response[i] = ResultAlone(i))
    /\ [][\A i \in Invocations :
            /\ pc'[i] = pc[i] => LocalsNext(i) = Locals(i)
            /\ Started(i) => request'[i] = request[i]]_vars

C15_Witness ==
    \E i, j \in Invocations :
        /\ pc[i] = "awaitOrigin"
        /\ pc[j] = "awaitSign"
        /\ j < i
        /\ Val(dispatched[i]).data = Some(<<233>>)
        /\ Val(signV4Options[j]).body = Some(<<123, 125>>)
        /\ Req(i).querystring # Req(j).querystring

\* C16: an invocation whose authorization header is missing or malformed
\* has returned the 403 response without any external call: it has sent no
\* parameter request, called neither the verifier nor the signer nor the
\* origin, and its start leaves the store's request counts as they were.
C16_RejectedBeforeAnyCall ==
    /\ [](\A i \in Invocations :
            (Started(i) /\ MissingOrMalformed(i)) =>
                /\ IsForbidden(i)
                /\ calls[i] = <<>>
                /\ userPoolId[i] = None /\ clientId[i] = None
                /\ verifierToken[i] = None /\ verified[i] = "none"
                /\ signV4Options[i] = None /\ signed[i] = None
                /\ dispatched[i] = None /\ originResult[i] = None)
    /\ [][\A i \in Invocations :
            (~Started(i) /\ request'[i] # None
                /\ AuthHeaderRejected(Val(request'[i]).headers))
            => ssmRequests' = ssmRequests]_vars

C16_Witness ==
    \E i, j \in Invocations :
        /\ Done(i)
        /\ Req(i).headers.authorization = None
        /\ IsForbidden(i)
        /\ calls[i] = <<>>
        /\ Done(j)
        /\ Req(j).headers.authorization = Some(<<AuthNoSpace>>)
        /\ IsForbidden(j)
        /\ calls[j] = <<>>
        /\ \A n \in ParamNames : ssmRequests[n] = 0

\* C17: with the store holding exactly the parameters the stack declares,
\* no parameter the handler asks for is missing, so an invocation with a
\* well-formed bearer header is not turned away for a missing parameter.
C17_HandlerReadsStackParameters ==
    \A i \in Invocations :
        (store = StackStore /\ Started(i))
        => /\ logged[i] # Some("ParameterNotFound")
           /\ \A n \in ParamNames : ssmRequests[n] > 0 => n \in DOMAIN store

====
